---- MODULE Spec2Model ----
(***************************************************************************)
(* Model of aitextgen/TokenDataset.py: the TokenDataset class (ingestion   *)
(* strategies, msgpack cache, container protocol) and the helper           *)
(* read_lines_from_file.                                                   *)
(*                                                                         *)
(* Text is a sequence of code points, a file is a sequence of bytes, a     *)
(* path is a string.  A text file read through open(..., "r") is the       *)
(* sequence of code points after Python's newline translation, so "\r"    *)
(* never reaches the program.                                              *)
(***************************************************************************)
EXTENDS Integers, Sequences, FiniteSets, TLC

\* ------------------------------------------------------------------------
\* Bounds of the model
\* ------------------------------------------------------------------------
MaxTextLen == 4
MaxTokens == 6
MaxBlock == 3
MaxCalls == 2
MaxRows == 3
MaxIndex == 4

\* ------------------------------------------------------------------------
\* Code points
\* ------------------------------------------------------------------------
LF == 10
FF == 12
SP == 32
DQ == 34
SQ == 39
COMMA == 44
BSL == 92
LA == 97
NUL == 0

\* the characters texts are drawn from
Alphabet == {LA, SP, LF, FF, COMMA, DQ}

\* str.splitlines() boundaries ("\r\n" is gone after newline translation)
LineBoundaries == {10, 11, 12, 13, 28, 29, 30, 133, 8232, 8233}

\* characters for which str.isspace() holds
Whitespace == {9, 10, 11, 12, 13, 28, 29, 30, 31, 32, 133, 160}

\* ------------------------------------------------------------------------
\* Sequence helpers
\* ------------------------------------------------------------------------
Min(a, b) == IF a < b THEN a ELSE b

Max(a, b) == IF a > b THEN a ELSE b

\* Python slice s[i:j] for 0 <= i (0-based, end exclusive, clipped)
Slice(s, i, j) == SubSeq(s, i + 1, Min(j, Len(s)))

RECURSIVE SeqsUpTo(_, _)
SeqsUpTo(S, n) ==
  IF n = 0 THEN {<<>>}
  ELSE LET prev == SeqsUpTo(S, n - 1)
       IN prev \cup {Append(s, c) : s \in {t \in prev : Len(t) = n - 1}, c \in S}

\* ------------------------------------------------------------------------
\* read_lines_from_file
\* ------------------------------------------------------------------------

\* a header skip that ends the first line at any splitlines() boundary
RECURSIVE ReadlineAnyBoundary(_, _)
ReadlineAnyBoundary(text, k) ==
  IF k >= Len(text) THEN Len(text)
  ELSE IF text[k + 1] \in {LF, FF} THEN k + 1
  ELSE ReadlineAnyBoundary(text, k + 1)

\* f.readline(): the number of characters consumed, through the first "\n"
RECURSIVE ReadlineLen(_, _)
ReadlineLen(text, k) ==
  IF k >= Len(text) THEN Len(text)
  ELSE IF text[k + 1] = LF THEN k + 1
  ELSE ReadlineLen(text, k + 1)

\* what is left in the stream after the optional f.readline()
AfterHeader(text, header) ==
  IF header THEN SubSeq(text, ReadlineLen(text, 0) + 1, Len(text)) ELSE text

\* str.splitlines()
RECURSIVE SplitAt(_, _, _, _)
SplitAt(text, bounds, i, cur) ==
  IF i > Len(text) THEN (IF cur = <<>> THEN <<>> ELSE <<cur>>)
  ELSE IF text[i] \in bounds THEN <<cur>> \o SplitAt(text, bounds, i + 1, <<>>)
  ELSE SplitAt(text, bounds, i + 1, Append(cur, text[i]))

splitlines(text) == SplitAt(text, LineBoundaries, 1, <<>>)

\* str.isspace(): non-empty and every character is whitespace
isspace(line) == Len(line) > 0 /\ \A i \in 1..Len(line) : line[i] \in Whitespace

\* the comprehension of lines 126-130
RECURSIVE KeepNonBlank(_)
KeepNonBlank(lines) ==
  IF lines = <<>> THEN <<>>
  ELSE IF Len(Head(lines)) > 0 /\ ~isspace(Head(lines))
       THEN <<Head(lines)>> \o KeepNonBlank(Tail(lines))
       ELSE KeepNonBlank(Tail(lines))

\* --- csv.reader (excel dialect: delimiter ",", quotechar '"', doublequote,
\* not strict), the parser of CPython's _csv module ---
CsvStart == [state |-> "START_RECORD", field |-> <<>>, fields |-> <<>>,
             records |-> <<>>, err |-> FALSE]

SaveField(st) == [st EXCEPT !.fields = Append(st.fields, st.field), !.field = <<>>]

AddChar(st, c) == [st EXCEPT !.field = Append(st.field, c)]

StartField(st, c) ==
  IF c \in {LF, NUL}
    THEN [SaveField(st) EXCEPT !.state = IF c = NUL THEN "START_RECORD" ELSE "EAT_CRNL"]
  ELSE IF c = DQ THEN [st EXCEPT !.state = "IN_QUOTED_FIELD"]
  ELSE IF c = COMMA THEN [SaveField(st) EXCEPT !.state = "START_FIELD"]
  ELSE [AddChar(st, c) EXCEPT !.state = "IN_FIELD"]

\* parse_process_char
CsvChar(st, c) ==
  CASE st.state = "START_RECORD" ->
         IF c = NUL THEN st
         ELSE IF c = LF THEN [st EXCEPT !.state = "EAT_CRNL"]
         ELSE StartField(st, c)
    [] st.state = "START_FIELD" -> StartField(st, c)
    [] st.state = "IN_FIELD" ->
         IF c \in {LF, NUL}
           THEN [SaveField(st) EXCEPT
                   !.state = IF c = NUL THEN "START_RECORD" ELSE "EAT_CRNL"]
         ELSE IF c = COMMA THEN [SaveField(st) EXCEPT !.state = "START_FIELD"]
         ELSE AddChar(st, c)
    [] st.state = "IN_QUOTED_FIELD" ->
         IF c = NUL THEN st
         ELSE IF c = DQ THEN [st EXCEPT !.state = "QUOTE_IN_QUOTED_FIELD"]
         ELSE AddChar(st, c)
    [] st.state = "QUOTE_IN_QUOTED_FIELD" ->
         IF c = DQ THEN [AddChar(st, c) EXCEPT !.state = "IN_QUOTED_FIELD"]
         ELSE IF c = COMMA THEN [SaveField(st) EXCEPT !.state = "START_FIELD"]
         ELSE IF c \in {LF, NUL}
           THEN [SaveField(st) EXCEPT
                   !.state = IF c = NUL THEN "START_RECORD" ELSE "EAT_CRNL"]
         ELSE [AddChar(st, c) EXCEPT !.state = "IN_FIELD"]
    [] st.state = "EAT_CRNL" ->
         IF c = LF THEN st
         ELSE IF c = NUL THEN [st EXCEPT !.state = "START_RECORD"]
         ELSE [st EXCEPT !.err = TRUE]

\* the end of one input line: the parser is fed NUL, and a record is
\* returned when it is back in START_RECORD
CsvEndLine(st) ==
  LET s2 == CsvChar(st, NUL)
  IN IF s2.state = "START_RECORD"
       THEN [s2 EXCEPT !.records = Append(s2.records, s2.fields),
                       !.fields = <<>>, !.field = <<>>]
       ELSE s2

\* Reader_iternext over the lines of the stream; the lines keep their "\n"
RECURSIVE CsvRun(_, _, _)
CsvRun(text, i, st) ==
  IF i > Len(text)
    THEN \* end of input
         LET s1 == IF Len(text) > 0 /\ text[Len(text)] # LF THEN CsvEndLine(st) ELSE st
         IN IF s1.state = "IN_QUOTED_FIELD"
              THEN Append(s1.records, Append(s1.fields, s1.field))
              ELSE s1.records
  ELSE LET s1 == CsvChar(st, text[i])
       IN IF text[i] = LF THEN CsvRun(text, i + 1, CsvEndLine(s1))
          ELSE CsvRun(text, i + 1, s1)

csv_reader(text) == CsvRun(text, 1, CsvStart)

\* repr() of a str
RECURSIVE ReprBody(_, _)
ReprBody(s, q) ==
  IF s = <<>> THEN <<>>
  ELSE LET c == Head(s)
           e == IF c = LF THEN <<BSL, 110>>
                ELSE IF c = FF THEN <<BSL, 120, 48, 99>>
                ELSE IF c = BSL THEN <<BSL, BSL>>
                ELSE IF c = q THEN <<BSL, c>>
                ELSE <<c>>
       IN e \o ReprBody(Tail(s), q)

HasChar(s, c) == \E i \in 1..Len(s) : s[i] = c

ReprStr(s) ==
  LET q == IF HasChar(s, SQ) /\ ~HasChar(s, DQ) THEN DQ ELSE SQ
  IN <<q>> \o ReprBody(s, q) \o <<q>>

RECURSIVE JoinRepr(_)
JoinRepr(fields) ==
  IF fields = <<>> THEN <<>>
  ELSE IF Len(fields) = 1 THEN ReprStr(fields[1])
  ELSE ReprStr(Head(fields)) \o <<COMMA, SP>> \o JoinRepr(Tail(fields))

\* str(line) of a list of str
StrOfList(fields) == <<91>> \o JoinRepr(fields) \o <<93>>

RECURSIVE StrEach(_)
StrEach(records) ==
  IF records = <<>> THEN <<>>
  ELSE <<StrOfList(Head(records))>> \o StrEach(Tail(records))

\* read_lines_from_file(file_path, header): text is the file's content,
\* isCsv is file_path.endswith(".csv")
read_lines_from_file(text, isCsv, header) ==
  LET rest == AfterHeader(text, header)
  IN IF isCsv THEN StrEach(csv_reader(rest))
     ELSE KeepNonBlank(splitlines(rest))

\* ------------------------------------------------------------------------
\* msgpack: pack / unpack of a list of lists of non-negative integers
\* ------------------------------------------------------------------------
Byte(n, k) == (n \div (256 ^ k)) % 256

\* an encoder that knows no format wider than uint 16
PackIntNarrow(n) ==
  IF n < 128 THEN <<n>>
  ELSE IF n < 256 THEN <<204, n>>
  ELSE <<205, Byte(n, 1), Byte(n, 0)>>

\* an unsigned integer: positive fixint, uint 8, uint 16, uint 32
PackInt(n) ==
  IF n < 128 THEN <<n>>
  ELSE IF n < 256 THEN <<204, n>>
  ELSE IF n < 65536 THEN <<205, Byte(n, 1), Byte(n, 0)>>
  ELSE <<206, Byte(n, 3), Byte(n, 2), Byte(n, 1), Byte(n, 0)>>

\* an array header: fixarray, array 16, array 32
PackArrayHeader(n) ==
  IF n < 16 THEN <<144 + n>>
  ELSE IF n < 65536 THEN <<220, Byte(n, 1), Byte(n, 0)>>
  ELSE <<221, Byte(n, 3), Byte(n, 2), Byte(n, 1), Byte(n, 0)>>

RECURSIVE PackInts(_)
PackInts(row) == IF row = <<>> THEN <<>> ELSE PackInt(Head(row)) \o PackInts(Tail(row))

PackRow(row) == PackArrayHeader(Len(row)) \o PackInts(row)

RECURSIVE PackRows(_)
PackRows(rows) == IF rows = <<>> THEN <<>> ELSE PackRow(Head(rows)) \o PackRows(Tail(rows))

\* msgpack.pack(self.examples, f): the bytes written
msgpack_pack(exs) == PackArrayHeader(Len(exs)) \o PackRows(exs)

DecFail == [ok |-> FALSE, val |-> 0, next |-> 0]

BE(b, p, k) == IF k = 1 THEN b[p]
               ELSE IF k = 2 THEN b[p] * 256 + b[p + 1]
               ELSE ((b[p] * 256 + b[p + 1]) * 256 + b[p + 2]) * 256 + b[p + 3]

\* a big-endian field of k bytes after the type byte at p
DecField(b, p, k) ==
  IF p + k > Len(b) THEN DecFail
  ELSE [ok |-> TRUE, val |-> BE(b, p + 1, k), next |-> p + k + 1]

DecInt(b, p) ==
  IF p > Len(b) THEN DecFail
  ELSE IF b[p] < 128 THEN [ok |-> TRUE, val |-> b[p], next |-> p + 1]
  ELSE IF b[p] = 204 THEN DecField(b, p, 1)
  ELSE IF b[p] = 205 THEN DecField(b, p, 2)
  ELSE IF b[p] = 206 THEN DecField(b, p, 4)
  ELSE DecFail

DecArrayHeader(b, p) ==
  IF p > Len(b) THEN DecFail
  ELSE IF b[p] >= 144 /\ b[p] < 160 THEN [ok |-> TRUE, val |-> b[p] - 144, next |-> p + 1]
  ELSE IF b[p] = 220 THEN DecField(b, p, 2)
  ELSE IF b[p] = 221 THEN DecField(b, p, 4)
  ELSE DecFail

RECURSIVE DecInts(_, _, _, _)
DecInts(b, p, n, acc) ==
  IF n = 0 THEN [ok |-> TRUE, val |-> acc, next |-> p]
  ELSE LET d == DecInt(b, p)
       IN IF ~d.ok THEN [ok |-> FALSE, val |-> <<>>, next |-> 0]
          ELSE DecInts(b, d.next, n - 1, Append(acc, d.val))

RECURSIVE DecRows(_, _, _, _)
DecRows(b, p, n, acc) ==
  IF n = 0 THEN [ok |-> TRUE, val |-> acc, next |-> p]
  ELSE LET h == DecArrayHeader(b, p)
       IN IF ~h.ok THEN [ok |-> FALSE, val |-> <<>>, next |-> 0]
          ELSE LET r == DecInts(b, h.next, h.val, <<>>)
               IN IF ~r.ok THEN [ok |-> FALSE, val |-> <<>>, next |-> 0]
                  ELSE DecRows(b, r.next, n - 1, Append(acc, r.val))

\* msgpack.unpack(f): the whole stream must be exactly one object.  A blob
\* that is not a list of lists of unsigned integers is reported as a
\* failure: the files of this model are text (bytes below 128, which
\* unpack to one integer or leave extra data, so that __init__ raises) or
\* prefixes of packed caches (incomplete input).
msgpack_unpack(b) ==
  LET h == DecArrayHeader(b, 1)
  IN IF ~h.ok THEN [ok |-> FALSE, val |-> <<>>]
     ELSE LET r == DecRows(b, h.next, h.val, <<>>)
          IN IF r.ok /\ r.next = Len(b) + 1 THEN [ok |-> TRUE, val |-> r.val]
             ELSE [ok |-> FALSE, val |-> <<>>]

\* ------------------------------------------------------------------------
\* The tokenizer capability (external): a character-level tokenizer.
\* "gpt2" frames nothing, "bert" frames an input as [CLS] ids [SEP].
\* ------------------------------------------------------------------------
CLS == 101
SEP == 102

\* tokenizer.convert_tokens_to_ids(tokenizer.tokenize(text))
Vocab(c) ==
  CASE c = LA -> 5
    [] c = SP -> 128
    [] c = LF -> 256
    [] c = FF -> 65535
    [] c = COMMA -> 65536
    [] OTHER -> 127

RECURSIVE tokenize_ids(_)
tokenize_ids(text) ==
  IF text = <<>> THEN <<>> ELSE <<Vocab(Head(text))>> \o tokenize_ids(Tail(text))

\* tokenizer.max_len - tokenizer.max_len_single_sentence
Overhead(tok) == IF tok = "bert" THEN 2 ELSE 0

\* tokenizer.build_inputs_with_special_tokens(ids)
build_inputs_with_special_tokens(tok, ids) ==
  IF tok = "bert" THEN <<CLS>> \o ids \o <<SEP>> ELSE ids

\* one text of batch_encode_plus(add_special_tokens=True, max_length)
encode_plus(tok, text, max_length) ==
  LET ids == tokenize_ids(text)
      room == Max(0, max_length - Overhead(tok))
  IN build_inputs_with_special_tokens(tok, Slice(ids, 0, room))

RECURSIVE batch_encode_plus(_, _, _)
batch_encode_plus(tok, texts, max_length) ==
  IF texts = <<>> THEN <<>>
  ELSE <<encode_plus(tok, Head(texts), max_length)>>
         \o batch_encode_plus(tok, Tail(texts), max_length)

\* ------------------------------------------------------------------------
\* The chunking loop of __init__ (lines 80-85)
\* ------------------------------------------------------------------------

\* list(range(start, stop, step)) for step # 0
RECURSIVE PyRange(_, _, _)
PyRange(start, stop, step) ==
  IF (step > 0 /\ start >= stop) \/ (step < 0 /\ start <= stop) THEN <<>>
  ELSE <<start>> \o PyRange(start + step, stop, step)

BadRangeStop(n, block_size) == n - block_size

RangeStop(n, block_size) == n - block_size + 1

\* the slices tokenized_text[i : i + block_size], before framing
RECURSIVE SliceEach(_, _, _)
SliceEach(toks, starts, block_size) ==
  IF starts = <<>> THEN <<>>
  ELSE <<Slice(toks, Head(starts), Head(starts) + block_size)>>
         \o SliceEach(toks, Tail(starts), block_size)

Chunks(toks, block_size) ==
  SliceEach(toks, PyRange(0, RangeStop(Len(toks), block_size), block_size), block_size)

RECURSIVE FrameEach(_, _)
FrameEach(tok, chunks) ==
  IF chunks = <<>> THEN <<>>
  ELSE <<build_inputs_with_special_tokens(tok, Head(chunks))>> \o FrameEach(tok, Tail(chunks))

\* ------------------------------------------------------------------------
\* The file system and the arguments of the calls
\* ------------------------------------------------------------------------
NonePath == "<None>"
Omitted == "<omitted>"
DefaultDestination == "model_cache.msgpack"
DefaultBlockSize == 1024

FilePaths == {"missing.txt", "lines.txt", "rows.csv", "cache.msgpack", DefaultDestination}

NoFile == [exists |-> FALSE, data |-> <<>>]

File(bytes) == [exists |-> TRUE, data |-> bytes]

\* file_path.endswith(".csv")
EndsWithCsv(path) == path \in {"rows.csv"}

\* decoding a file as UTF-8: every file of the model is either ASCII text
\* or starts with a msgpack array byte, which no UTF-8 text starts with
Utf8Ok(bytes) == \A i \in 1..Len(bytes) : bytes[i] < 128

Tokenizers == {"None", "gpt2", "bert"}

Text2 == <<<<LA, SP, LF>>, <<FF, COMMA, DQ>>>>
Text16 == <<[i \in 1..16 |-> LA]>>
Texts16 == [i \in 1..16 |-> <<LA>>]

BlockSizes == (1..MaxBlock) \cup {DefaultBlockSize}

\* texts: None, or a list of strings
TextsArgs == {[given |-> FALSE, val |-> <<>>]}
               \cup [given : {TRUE}, val : {<<>>, Text2, Text16, Texts16}]

\* the arguments of TokenDataset(...)
CtorArgs ==
  [tokenizer : Tokenizers,
   texts : TextsArgs,
   line_by_line : BOOLEAN,
   file_path : {NonePath} \cup FilePaths,
   from_cache : BOOLEAN,
   header : BOOLEAN,
   save_cache : BOOLEAN,
   cache_destination : {NonePath, "cache.msgpack"},
   block_size : BlockSizes]

\* a later run of the program loads a cache
ReloadArgs ==
  [tokenizer : {"None"},
   texts : {t \in TextsArgs : t.val \in {<<>>, Text2}},
   line_by_line : {FALSE},
   file_path : {NonePath, "missing.txt"} \cup {"cache.msgpack", DefaultDestination},
   from_cache : {TRUE},
   header : {TRUE},
   save_cache : BOOLEAN,
   cache_destination : {NonePath, "cache.msgpack"},
   block_size : {DefaultBlockSize}]

\* how a write to an opened destination ends
IOOutcomes == {"ok", "trunc", "partial"}

\* ------------------------------------------------------------------------
\* TokenDataset.save
\* ------------------------------------------------------------------------
WriteResult(bytes, io) ==
  IF io = "ok" THEN bytes
  ELSE IF io = "trunc" THEN <<>>
  ELSE SubSeq(bytes, 1, Len(bytes) \div 2)

\* save without its assertion
SaveNoAssert(exs, dest, fs0, io) ==
  IF dest = NonePath THEN [err |-> "TypeError", fs |-> fs0]
  ELSE [err |-> IF io = "ok" THEN "" ELSE "OSError",
        fs |-> [fs0 EXCEPT ![dest] = File(WriteResult(msgpack_pack(exs), io))]]

\* save that opens the destination before it checks anything
SaveOpenFirst(exs, dest, fs0, io) ==
  IF dest = NonePath THEN [err |-> "TypeError", fs |-> fs0]
  ELSE IF Len(exs) = 0
    THEN [err |-> "AssertionError", fs |-> [fs0 EXCEPT ![dest] = File(<<>>)]]
  ELSE [err |-> IF io = "ok" THEN "" ELSE "OSError",
        fs |-> [fs0 EXCEPT ![dest] = File(WriteResult(msgpack_pack(exs), io))]]

\* self.save(dest): the assertion, open(dest, "wb") which truncates, and
\* the write of the packed examples
save(exs, dest, fs0, io) ==
  IF Len(exs) = 0 THEN [err |-> "AssertionError", fs |-> fs0]
  ELSE IF dest = NonePath THEN [err |-> "TypeError", fs |-> fs0]
  ELSE [err |-> IF io = "ok" THEN "" ELSE "OSError",
        fs |-> [fs0 EXCEPT ![dest] = File(WriteResult(msgpack_pack(exs), io))]]

\* ------------------------------------------------------------------------
\* TokenDataset.__init__
\* ------------------------------------------------------------------------
TextsPresent(c) == c.texts.given

\* the if / elif chain with the texts test ahead of the cache test
SelectTextsFirst(c) ==
  IF TextsPresent(c) THEN "texts"
  ELSE IF c.from_cache THEN "cache"
  ELSE IF c.line_by_line THEN "line_by_line"
  ELSE "chunked"

\* the if / elif chain of lines 38-65
SelectStrategy(c) ==
  IF c.from_cache THEN "cache"
  ELSE IF TextsPresent(c) THEN "texts"
  ELSE IF c.line_by_line THEN "line_by_line"
  ELSE "chunked"

Populated(exs, suffix, path, n) ==
  [err |-> "", examples |-> exs, str_suffix |-> [text |-> suffix, path |-> path],
   tokCalls |-> n]

PopulateFailed(e, n) ==
  [err |-> e, examples |-> <<>>, str_suffix |-> [text |-> "", path |-> NonePath],
   tokCalls |-> n]

\* lines 38-41
FromCache(c, fs0) ==
  IF c.file_path = NonePath THEN PopulateFailed("TypeError", 0)
  ELSE IF ~fs0[c.file_path].exists THEN PopulateFailed("FileNotFoundError", 0)
  ELSE LET u == msgpack_unpack(fs0[c.file_path].data)
       IN IF u.ok THEN Populated(u.val, "via cache.", NonePath, 0)
          ELSE PopulateFailed("UnpackError", 0)

\* batch_encode_plus(...)["input_ids"]: for an empty batch the tokenizer
\* either returns no sequences or builds no "input_ids" entry at all
Encoded(c, texts, suffix, path, emptyRaises) ==
  IF texts = <<>> /\ emptyRaises THEN PopulateFailed("KeyError", 1)
  ELSE Populated(batch_encode_plus(c.tokenizer, texts, c.block_size), suffix, path, 1)

\* lines 44-48
FromTexts(c, emptyRaises) ==
  Encoded(c, c.texts.val, "via application.", NonePath, emptyRaises)

\* lines 52-61
FromLines(c, fs0, emptyRaises) ==
  IF ~fs0[c.file_path].exists THEN PopulateFailed("AssertionError", 0)
  ELSE IF ~Utf8Ok(fs0[c.file_path].data) THEN PopulateFailed("UnicodeDecodeError", 0)
  ELSE Encoded(c, read_lines_from_file(fs0[c.file_path].data,
                                       EndsWithCsv(c.file_path), c.header),
               "from line-by-line file at {}.", c.file_path, emptyRaises)

\* lines 68-85: the examples of the chunked strategy
ChunkedExamples(tok, toks, block_size) ==
  LET bs == block_size - Overhead(tok)
  IN IF bs = 0 THEN [err |-> "ValueError", chunks |-> <<>>, examples |-> <<>>]
     ELSE [err |-> "", chunks |-> Chunks(toks, bs),
           examples |-> FrameEach(tok, Chunks(toks, bs))]

\* lines 65-87
FromChunks(c, fs0) ==
  IF ~fs0[c.file_path].exists THEN PopulateFailed("AssertionError", 0)
  ELSE IF ~Utf8Ok(fs0[c.file_path].data) THEN PopulateFailed("UnicodeDecodeError", 0)
  ELSE LET r == ChunkedExamples(c.tokenizer, tokenize_ids(fs0[c.file_path].data),
                                c.block_size)
       IN IF r.err # "" THEN PopulateFailed(r.err, 2)
          ELSE Populated(r.examples, "from file at {}.", c.file_path,
                         2 + Len(r.examples))

Populate(strat, c, fs0, emptyRaises) ==
  CASE strat = "cache" -> FromCache(c, fs0)
    [] strat = "texts" -> FromTexts(c, emptyRaises)
    [] strat = "line_by_line" -> FromLines(c, fs0, emptyRaises)
    [] OTHER -> FromChunks(c, fs0)

\* any([texts, file_path])
AnySource(c) == (c.texts.given /\ Len(c.texts.val) > 0) \/ c.file_path # NonePath

CtorResult(e, strat, pop, popOk, fs1) ==
  [err |-> e, strategy |-> strat, examples |-> pop.examples,
   str_suffix |-> pop.str_suffix, tokCalls |-> pop.tokCalls,
   populated |-> popOk, fs |-> fs1]

\* TokenDataset.__init__, lines 33-92
Ctor(c, fs0, io, emptyRaises) ==
  IF ~AnySource(c) \/ (~c.from_cache /\ c.tokenizer = "None")
    THEN CtorResult("AssertionError", "none", PopulateFailed("", 0), FALSE, fs0)
  ELSE LET strat == SelectStrategy(c)
           pop == Populate(strat, c, fs0, emptyRaises)
       IN IF pop.err # "" THEN CtorResult(pop.err, strat, pop, FALSE, fs0)
          ELSE IF ~c.save_cache THEN CtorResult("", strat, pop, TRUE, fs0)
          ELSE LET sv == save(pop.examples, c.cache_destination, fs0, io)
               IN CtorResult(sv.err, strat, pop, TRUE, sv.fs)

\* ------------------------------------------------------------------------
\* __len__, __getitem__, __repr__
\* ------------------------------------------------------------------------

\* self.examples[item] without Python's negative indexing
GetNoNegative(exs, item) ==
  IF 0 <= item /\ item < Len(exs) THEN [err |-> "", ret |-> exs[item + 1]]
  ELSE [err |-> "IndexError", ret |-> <<>>]

\* torch.tensor(self.examples[item], dtype=torch.long) for an int item
getitem(exs, item) ==
  IF 0 <= item /\ item < Len(exs) THEN [err |-> "", ret |-> exs[item + 1]]
  ELSE IF -Len(exs) <= item /\ item < 0
    THEN [err |-> "", ret |-> exs[Len(exs) + item + 1]]
  ELSE [err |-> "IndexError", ret |-> <<>>]

len(exs) == Len(exs)

repr(exs, suffix) == [count |-> Len(exs), suffix |-> suffix]

\* ------------------------------------------------------------------------
\* State
\* ------------------------------------------------------------------------
VARIABLES
  fs,          \* the files: path -> [exists, data]
  alive,       \* the caller holds a TokenDataset instance
  examples,    \* self.examples
  str_suffix,  \* self.str_suffix: the format text and the path filled in
  op,          \* the last call: "none", "__init__", "save", "__getitem__", ...
  err,         \* the exception the last call raised, "" if it returned
  a,           \* arguments of the last __init__
  dest,        \* the destination of the last save
  strategy,    \* the ingestion branch the last __init__ took
  tokCalls,    \* tokenizer methods invoked by the last __init__
  populated,   \* the last __init__ reached line 89
  fsPre,       \* the files before the last call
  saved,       \* per cache path: the examples of the last completed save
  prior,       \* saved[file_path] before the last __init__ from a cache
  nCalls,      \* calls of __init__ and save so far
  item,        \* the index of the last __getitem__
  ret,         \* the value the last __getitem__ returned
  retLen,      \* the value the last __len__ returned
  retRepr,     \* the value the last __repr__ returned
  rl,          \* a call of read_lines_from_file: inputs and result
  ck           \* a run of the chunking loop: inputs and result

vars == <<fs, alive, examples, str_suffix, op, err, a, dest, strategy, tokCalls,
          populated, fsPre, saved, prior, nCalls, item, ret, retLen, retRepr, rl, ck>>

CachePaths == {"cache.msgpack", DefaultDestination}

NoArgs == [from_cache |-> FALSE, texts_given |-> FALSE, line_by_line |-> FALSE,
           file_path |-> NonePath, save_cache |-> FALSE,
           cache_destination |-> NonePath]

ArgsOf(c) == [from_cache |-> c.from_cache, texts_given |-> c.texts.given,
              line_by_line |-> c.line_by_line, file_path |-> c.file_path,
              save_cache |-> c.save_cache, cache_destination |-> c.cache_destination]

NoSuffix == [text |-> "", path |-> NonePath]

NotSaved == [valid |-> FALSE, exs |-> <<>>]

NoLines == [text |-> <<>>, isCsv |-> FALSE, header |-> FALSE, done |-> FALSE,
            ret |-> <<>>]

NoChunks == [toks |-> <<>>, block_size |-> 1, tok |-> "gpt2", done |-> FALSE,
             err |-> "", chunks |-> <<>>, examples |-> <<>>]

\* the text files of the model
LinesTxt == <<LA, LF>>
RowsCsv == <<LA, COMMA, LF, DQ, LA>>

BaseFs == [p \in FilePaths |->
             IF p = "lines.txt" THEN File(LinesTxt)
             ELSE IF p = "rows.csv" THEN File(RowsCsv)
             ELSE NoFile]

\* what cache.msgpack holds when the program starts
InitialCaches == {NoFile, File(msgpack_pack(<<>>)), File(msgpack_pack(<<<<5, 128>>>>))}

\* no instance has been constructed
NoInstance ==
  /\ alive = FALSE
  /\ examples = <<>>
  /\ str_suffix = NoSuffix
  /\ strategy = "none"
  /\ tokCalls = 0
  /\ populated = FALSE

\* no call has been made
NoCalls ==
  /\ op = "none"
  /\ err = ""
  /\ a = NoArgs
  /\ dest = NonePath
  /\ saved = [p \in CachePaths |-> NotSaved]
  /\ prior = NotSaved
  /\ nCalls = 0
  /\ item = 0
  /\ ret = <<>>
  /\ retLen = 0
  /\ retRepr = [count |-> 0, suffix |-> NoSuffix]

\* ------------------------------------------------------------------------
\* The life of the cache: __init__ and save
\* ------------------------------------------------------------------------
Init ==
  /\ \E f \in InitialCaches : fs = [BaseFs EXCEPT !["cache.msgpack"] = f]
  /\ fsPre = fs
  /\ NoInstance
  /\ NoCalls
  /\ rl = NoLines
  /\ ck = NoChunks

\* the write of a save was reached: the ghost record of what dest holds
Record(sv, d, e, exs) ==
  IF d \in CachePaths /\ e \in {"", "OSError"} /\ Len(exs) > 0
    THEN [sv EXCEPT ![d] = IF e = "" THEN [valid |-> TRUE, exs |-> exs] ELSE NotSaved]
    ELSE sv

Construct ==
  /\ nCalls < MaxCalls
  /\ \E c \in (IF nCalls = 0 THEN CtorArgs ELSE ReloadArgs),
        io \in IOOutcomes, emptyRaises \in BOOLEAN :
       \* the write outcome matters to a saving call, the empty batch to an
       \* encoding one
       /\ ~c.save_cache => io = "ok"
       /\ c.from_cache => ~emptyRaises
       /\ \E r \in {Ctor(c, fs, io, emptyRaises)} :
          /\ fs' = r.fs
          /\ alive' = (r.err = "")
          /\ examples' = r.examples
          /\ str_suffix' = r.str_suffix
          /\ op' = "__init__"
          /\ err' = r.err
          /\ a' = ArgsOf(c)
          /\ dest' = c.cache_destination
          /\ strategy' = r.strategy
          /\ tokCalls' = r.tokCalls
          /\ populated' = r.populated
          /\ fsPre' = fs
          /\ saved' = IF r.populated /\ c.save_cache
                        THEN Record(saved, c.cache_destination, r.err, r.examples)
                        ELSE saved
          /\ prior' = IF r.strategy = "cache" /\ c.file_path \in CachePaths
                        THEN saved[c.file_path] ELSE NotSaved
          /\ nCalls' = nCalls + 1
  /\ UNCHANGED <<item, ret, retLen, retRepr, rl, ck>>

Save ==
  /\ alive
  /\ nCalls < MaxCalls
  /\ \E d \in {Omitted, NonePath, "cache.msgpack"}, io \in IOOutcomes :
       \E target \in {IF d = Omitted THEN DefaultDestination ELSE d} :
       \E r \in {save(examples, target, fs, io)} :
          /\ fs' = r.fs
          /\ op' = "save"
          /\ err' = r.err
          /\ dest' = target
          /\ fsPre' = fs
          /\ saved' = Record(saved, target, r.err, examples)
          /\ nCalls' = nCalls + 1
  /\ UNCHANGED <<alive, examples, str_suffix, a, strategy, tokCalls, populated,
                 prior, item, ret, retLen, retRepr, rl, ck>>

Next == Construct \/ Save

Spec == Init /\ [][Next]_vars

\* ------------------------------------------------------------------------
\* The container protocol on a constructed instance
\* ------------------------------------------------------------------------
Rows == {<<>>, <<5>>, <<128, 65536>>}

InitGet ==
  /\ fs = BaseFs
  /\ fsPre = fs
  /\ NoCalls
  /\ alive = TRUE
  /\ examples \in SeqsUpTo(Rows, MaxRows)
  /\ str_suffix = [text |-> "via application.", path |-> NonePath]
  /\ strategy = "texts"
  /\ tokCalls = 1
  /\ populated = TRUE
  /\ rl = NoLines
  /\ ck = NoChunks

GetItem ==
  /\ alive
  /\ \E i \in (-MaxIndex)..MaxIndex :
       LET r == getitem(examples, i)
       IN /\ op' = "__getitem__"
          /\ item' = i
          /\ err' = r.err
          /\ ret' = r.ret
  /\ UNCHANGED <<fs, alive, examples, str_suffix, a, dest, strategy, tokCalls,
                 populated, fsPre, saved, prior, nCalls, retLen, retRepr, rl, ck>>

LenCall ==
  /\ alive
  /\ op' = "__len__"
  /\ err' = ""
  /\ retLen' = len(examples)
  /\ UNCHANGED <<fs, alive, examples, str_suffix, a, dest, strategy, tokCalls,
                 populated, fsPre, saved, prior, nCalls, item, ret, retRepr, rl, ck>>

ReprCall ==
  /\ alive
  /\ op' = "__repr__"
  /\ err' = ""
  /\ retRepr' = repr(examples, str_suffix)
  /\ UNCHANGED <<fs, alive, examples, str_suffix, a, dest, strategy, tokCalls,
                 populated, fsPre, saved, prior, nCalls, item, ret, retLen, rl, ck>>

NextGet == GetItem \/ LenCall \/ ReprCall

SpecGet == InitGet /\ [][NextGet]_vars

\* ------------------------------------------------------------------------
\* read_lines_from_file on every short text
\* ------------------------------------------------------------------------
InitLines ==
  /\ fs = BaseFs
  /\ fsPre = fs
  /\ NoInstance
  /\ NoCalls
  /\ rl \in [text : SeqsUpTo(Alphabet, MaxTextLen), isCsv : BOOLEAN,
             header : BOOLEAN, done : {FALSE}, ret : {<<>>}]
  /\ ck = NoChunks

ReadLines ==
  /\ ~rl.done
  /\ rl' = [rl EXCEPT !.done = TRUE,
                      !.ret = read_lines_from_file(rl.text, rl.isCsv, rl.header)]
  /\ UNCHANGED <<fs, alive, examples, str_suffix, op, err, a, dest, strategy,
                 tokCalls, populated, fsPre, saved, prior, nCalls, item, ret,
                 retLen, retRepr, ck>>

SpecLines == InitLines /\ [][ReadLines]_vars

\* ------------------------------------------------------------------------
\* The chunking loop on every short token sequence
\* ------------------------------------------------------------------------
InitChunk ==
  /\ fs = BaseFs
  /\ fsPre = fs
  /\ NoInstance
  /\ NoCalls
  /\ rl = NoLines
  /\ ck \in [toks : SeqsUpTo({5, 128}, MaxTokens), block_size : BlockSizes,
             tok : {"gpt2", "bert"}, done : {FALSE}, err : {""},
             chunks : {<<>>}, examples : {<<>>}]

Chunk ==
  /\ ~ck.done
  /\ LET r == ChunkedExamples(ck.tok, ck.toks, ck.block_size)
     IN ck' = [ck EXCEPT !.done = TRUE, !.err = r.err, !.chunks = r.chunks,
                         !.examples = r.examples]
  /\ UNCHANGED <<fs, alive, examples, str_suffix, op, err, a, dest, strategy,
                 tokCalls, populated, fsPre, saved, prior, nCalls, item, ret,
                 retLen, retRepr, rl>>

SpecChunk == InitChunk /\ [][Chunk]_vars

\* ------------------------------------------------------------------------
\* Properties
\* ------------------------------------------------------------------------
InitCall == op = "__init__"

\* a save ran: the save method, or __init__ with save_cache after populating
SaveRan == op = "save" \/ (InitCall /\ populated /\ a.save_cache)

ValidCache(f) == f.exists /\ msgpack_unpack(f.data).ok

\* C1: a cache load from a path that a completed save wrote yields examples
\* equal to the saved ones: same length, same nested integers, same order.
RoundTrip ==
  (InitCall /\ strategy = "cache" /\ prior.valid)
    => (populated /\ examples = prior.exs)

RoundTripWitness ==
  /\ InitCall /\ strategy = "cache" /\ prior.valid /\ err = ""
  /\ examples = prior.exs
  /\ Len(examples) = 16
  /\ ~a.save_cache

RoundTripWideWitness ==
  /\ InitCall /\ strategy = "cache" /\ prior.valid /\ err = ""
  /\ \E i \in 1..Len(examples) : \E j \in 1..Len(examples[i]) : examples[i][j] >= 65536

ChunkB == ck.block_size - Overhead(ck.tok)

\* C2: for an effective block size B >= 1 the chunking loop yields exactly
\* floor(L / B) chunks, the k-th being the tokens at [k*B, (k+1)*B), and each
\* example is that chunk framed; the trailing L mod B tokens are in no chunk.
ChunkingCorrect ==
  (ck.done /\ ChunkB >= 1)
    => /\ ck.err = ""
       /\ Len(ck.chunks) = Len(ck.toks) \div ChunkB
       /\ Len(ck.examples) = Len(ck.chunks)
       /\ \A k \in 0..(Len(ck.chunks) - 1) :
            /\ Len(ck.chunks[k + 1]) = ChunkB
            /\ \A j \in 1..ChunkB : ck.chunks[k + 1][j] = ck.toks[k * ChunkB + j]
            /\ ck.examples[k + 1] =
                 build_inputs_with_special_tokens(ck.tok, ck.chunks[k + 1])

ChunkingWitness ==
  /\ ck.done /\ ChunkB = 2 /\ Len(ck.toks) = 5 /\ Len(ck.chunks) = 2
  /\ ck.tok = "gpt2" /\ ck.chunks[1] # ck.chunks[2]

\* C3 (as claimed): a construction that completes through a strategy other
\* than cache loading has at least one example.
NonEmptyAfterConstruction ==
  (InitCall /\ err = "" /\ strategy # "cache") => Len(examples) > 0

\* C3 (amended): a construction with save_cache that completes has at least
\* one example, whatever the strategy; without save_cache nothing checks it.
NonEmptyWhenSaved ==
  (InitCall /\ err = "" /\ a.save_cache) => Len(examples) > 0

NonEmptyWhenSavedWitness ==
  /\ InitCall /\ a.save_cache /\ err = "" /\ strategy = "chunked"
  /\ Len(examples) = 2 /\ fs[dest] = File(msgpack_pack(examples))

ExpectedStrategy ==
  IF a.from_cache THEN "cache"
  ELSE IF a.texts_given THEN "texts"
  ELSE IF a.line_by_line THEN "line_by_line"
  ELSE "chunked"

SuffixOf(st) ==
  CASE st = "cache" -> "via cache."
    [] st = "texts" -> "via application."
    [] st = "line_by_line" -> "from line-by-line file at {}."
    [] OTHER -> "from file at {}."

\* C4: a construction that passes the preconditions runs the one strategy
\* the priority cache > texts > line-by-line > chunked selects, and with
\* from_cache the examples are the cache content and no tokenizer method is
\* invoked, texts supplied or not.
StrategySelection ==
  (InitCall /\ strategy # "none")
    => /\ strategy = ExpectedStrategy
       /\ populated => str_suffix.text = SuffixOf(ExpectedStrategy)
       /\ (strategy # "cache" /\ populated) => tokCalls > 0
       /\ a.from_cache =>
            /\ tokCalls = 0
            /\ populated =>
                 examples = msgpack_unpack(fsPre[a.file_path].data).val

StrategyWitness ==
  /\ InitCall /\ a.from_cache /\ a.texts_given /\ err = ""
  /\ Len(examples) > 0 /\ tokCalls = 0

SaveTarget ==
  IF a.cache_destination = NonePath THEN DefaultDestination ELSE a.cache_destination

\* C5: a construction with save_cache whose population gave examples writes
\* them to cache_destination, or to model_cache.msgpack when no
\* cache_destination is given.
SaveCacheTarget ==
  (InitCall /\ a.save_cache /\ populated /\ Len(examples) > 0 /\ err # "OSError")
    => /\ err = ""
       /\ fs[SaveTarget] = File(msgpack_pack(examples))

\* C6 (as claimed): get(index) returns the example at index inside
\* [0, length()) and fails for every other index, the negative ones included.
IndexRange ==
  (op = "__getitem__")
    => IF 0 <= item /\ item < Len(examples)
         THEN err = "" /\ ret = examples[item + 1]
         ELSE err = "IndexError"

\* C6 (amended): get(index) returns the example at index inside
\* [0, length()), the example at length() + index for an index in
\* [-length(), 0), and fails with IndexError for every other index.
IndexRangeNegative ==
  (op = "__getitem__")
    => IF 0 <= item /\ item < Len(examples)
         THEN err = "" /\ ret = examples[item + 1]
         ELSE IF -Len(examples) <= item /\ item < 0
           THEN err = "" /\ ret = examples[Len(examples) + item + 1]
           ELSE err = "IndexError"

IndexRangeWitness ==
  /\ op = "__getitem__" /\ item = -1 /\ Len(examples) = 2
  /\ examples[1] # examples[2] /\ err = "" /\ ret = examples[2]

\* C7: a save with zero examples fails its assertion and leaves every file
\* as it was: nothing is created, truncated or written.
EmptySaveRejected ==
  (SaveRan /\ Len(examples) = 0) => (err = "AssertionError" /\ fs = fsPre)

EmptySaveWitness ==
  /\ op = "save" /\ Len(examples) = 0 /\ strategy = "cache"
  /\ dest = DefaultDestination /\ ~fs[dest].exists /\ err = "AssertionError"

\* C8 (as claimed): whenever a save to a destination that holds a valid
\* cache fails, the destination still holds that cache.
FailedSaveKeepsCache ==
  (SaveRan /\ err # "" /\ dest # NonePath /\ ValidCache(fsPre[dest]))
    => fs[dest] = fsPre[dest]

\* C8 (amended): a save that fails its precondition leaves the valid cache
\* at the destination as it was; a failure after the destination has been
\* opened is not covered.
RejectedSaveKeepsCache ==
  (SaveRan /\ err = "AssertionError" /\ dest # NonePath /\ ValidCache(fsPre[dest]))
    => (fs[dest] = fsPre[dest] /\ ValidCache(fs[dest]))

RejectedSaveWitness ==
  /\ InitCall /\ a.save_cache /\ populated /\ err = "AssertionError"
  /\ dest = "cache.msgpack" /\ ValidCache(fsPre[dest])
  /\ msgpack_unpack(fs[dest].data).val # <<>>

\* the text that follows the first newline-terminated line
FirstNewline(text) ==
  IF \E i \in 1..Len(text) : text[i] = LF
    THEN CHOOSE i \in 1..Len(text) : text[i] = LF /\ \A j \in 1..(i - 1) : text[j] # LF
    ELSE Len(text)

DropFirstLine(text) == [i \in 1..(Len(text) - FirstNewline(text)) |->
                          text[FirstNewline(text) + i]]

\* C9: read_lines with header=true returns what read_lines with header=false
\* returns on the file without its first line, CSV or not.
HeaderSkip ==
  (rl.done /\ rl.header)
    => rl.ret = read_lines_from_file(DropFirstLine(rl.text), rl.isCsv, FALSE)

HeaderSkipWitness ==
  /\ rl.done /\ rl.header /\ rl.isCsv
  /\ rl.text = <<FF, LF, LA, COMMA>>
  /\ Len(rl.ret) = 1

HeaderSkipBlankWitness ==
  /\ rl.done /\ rl.header /\ ~rl.isCsv
  /\ rl.text = <<LF, LA, FF, LA>>
  /\ rl.ret = <<<<LA>>, <<LA>>>>

\* the lines of a text, ended by newlines
NewlineLines(text) == SplitAt(text, {LF}, 1, <<>>)

NotBlank(line) == \E i \in 1..Len(line) : line[i] \notin Whitespace

\* C10: for a file that is not CSV read_lines returns exactly the lines,
\* after the optional header, that are not empty and not all whitespace,
\* in order and unaltered.
BlankLineFiltering ==
  (rl.done /\ ~rl.isCsv)
    => rl.ret = SelectSeq(NewlineLines(IF rl.header THEN DropFirstLine(rl.text)
                                       ELSE rl.text), NotBlank)

====
